---- MODULE Spec2Model ----
(***************************************************************************)
(* Model of icemelter's pipeline (src/src/main.rs): retrieve, configure    *)
(* the interestingness check, initial ICE check, synthesis of the          *)
(* "uninteresting" error regex, reduction, formatting, bisection, output.  *)
(*                                                                         *)
(* A stderr is a sequence of lines.  A line records how it starts (which   *)
(* is what the anchored patterns of main.rs look at) and whether the       *)
(* user-supplied interesting / uninteresting patterns match inside it.     *)
(***************************************************************************)
EXTENDS Integers, Sequences, FiniteSets, TLC

VARIABLES
    pc,                    \* position of main()
    args,                  \* struct Args, the parsed command line
    rs,                    \* the retrieved source
    oracle,                \* the CmdCheck invocation in flight / just finished
    initial_stderr,        \* stderr of the initial run (check_initial_ice)
    error_codes,           \* codes harvested by check_initial_ice
    uninteresting_stderr,  \* main's local Option<String> given to check()
    reduced,               \* bytes returned by reduce()
    rustfmt_out,           \* bytes rustfmt left in the temporary file
    fmt_result,            \* FormatResult
    formatted,             \* main's `formatted`: the candidate carried on
    bisect_report,         \* Option<String>
    files,                 \* what the pipeline has written
    warnings,              \* warn!/error! messages logged
    exit_code,             \* process exit status ("running" until it ends)
    trace                  \* stages entered and oracle invocations made

vars == <<pc, args, rs, oracle, initial_stderr, error_codes,
          uninteresting_stderr, reduced, rustfmt_out, fmt_result, formatted,
          bisect_report, files, warnings, exit_code, trace>>

-----------------------------------------------------------------------------
(* Bounds and program constants *)

\* longest stderr (in lines) a spawned command prints
MaxLines == 2

\* `for n in 0..1000`
CodeLimit == 1000

\* `{:0>4}` and `\d\d\d\d`
CodeWidth == 4

None == "None"

\* byte buffers: the source and what reducer and formatter can turn it into
Bytes == {"rs", "b1", "b2"}

\* diagnostic codes the modelled compiler can print
CodeSample == {<<0, 0, 0, 0>>, <<0, 3, 0, 8>>, <<0, 9, 9, 9>>, <<1, 0, 0, 0>>}

NoCode == <<>>

Line(head, ch, code, ice, user) ==
    [head |-> head, ch |-> ch, code |-> code, ice |-> ice, user |-> user]

\* "error: internal compiler error: ..." : matched by the interesting pattern
IceLine == Line("error: ", "i", NoCode, TRUE, FALSE)

\* "error: aborting due to previous error"
AbortLine == Line("error: ", "a", NoCode, FALSE, FALSE)

\* "error[E0308]: ..."
CodeLine(c) == Line("error[E", "", c, FALSE, FALSE)

\* a line the user's --uninteresting-stderr pattern matches
UserLine == Line("other", "", NoCode, FALSE, TRUE)

Lines == {IceLine, AbortLine, UserLine} \cup {CodeLine(c) : c \in CodeSample}

Stderrs == UNION {[1..n -> Lines] : n \in 0..MaxLines}

-----------------------------------------------------------------------------
(* Patterns.  A pattern text is kept as the alternatives it is made of;    *)
(* the part written by error_regex is kept as the code set it was built    *)
(* from and expanded when the pattern is matched.  `^` is the start of the *)
(* text, and of every line under the (?m) flag.                            *)

NoRegex ==
    [present |-> FALSE, multiline |-> FALSE, interesting |-> FALSE,
     user |-> FALSE, fresh |-> FALSE, codes |-> {}]

\* args.interesting_stderr; by default
\* (internal compiler error:|error: the compiler unexpectedly panicked\. ...)
InterestingRegex == [NoRegex EXCEPT !.present = TRUE, !.interesting = TRUE]

\* args.uninteresting_stderr, when given
UserRegex == [NoRegex EXCEPT !.present = TRUE, !.user = TRUE]

ArgsUninteresting == IF args.uninteresting_stderr THEN UserRegex ELSE NoRegex

RECURSIVE Digits(_)
Digits(n) == IF n < 10 THEN <<n>> ELSE Append(Digits(n \div 10), n % 10)

\* format!("{:0>4}", n)
FormatCode(n) ==
    LET d == Digits(n)
        pad == IF Len(d) >= CodeWidth THEN 0 ELSE CodeWidth - Len(d)
    IN  [i \in 1..(pad + Len(d)) |-> IF i <= pad THEN 0 ELSE d[i - pad]]

\* the numeric value of a code, for stating ranges of codes
RECURSIVE CodeValue(_)
CodeValue(c) ==
    IF c = <<>> THEN 0
    ELSE 10 * CodeValue(SubSeq(c, 1, Len(c) - 1)) + c[Len(c)]

\* the codes the loop `for n in 0..1000` formats
LoopCodes == {FormatCode(n) : n \in 0..(CodeLimit - 1)}

\* the codes of a loop that stops one short
LoopCodesShort == {FormatCode(n) : n \in 0..(CodeLimit - 2)}

\* error_regex with the loop bound off by one
error_regex_ShortLoop(codes) ==
    [bare |-> TRUE, alt |-> {FormatCode(0)} \cup (LoopCodesShort \ codes)]

\* fn error_regex: (^error: [^it]|^error\[E(0000|<every code not in codes>)\]: )
error_regex(codes) ==
    [bare |-> TRUE, alt |-> {FormatCode(0)} \cup (LoopCodes \ codes)]

\* main: format!("(?m)({}|{})", u, fresh_error_regex) / format!("(?m){}", ..)
\* with fresh_error_regex = error_regex(codes)
uninteresting_regex(user, codes) ==
    [present |-> TRUE, multiline |-> TRUE, interesting |-> FALSE,
     user |-> user, fresh |-> TRUE, codes |-> codes]

AtLineStart(rx, i) == i = 1 \/ rx.multiline

\* Regex::new(..).is_match(stderr)
is_match(rx, stderr) ==
    /\ rx.present
    /\ \E i \in DOMAIN stderr :
         \/ rx.interesting /\ stderr[i].ice
         \/ rx.user /\ stderr[i].user
         \/ /\ rx.fresh
            /\ AtLineStart(rx, i)
            /\ \/ /\ stderr[i].head = "error: "          \* ^error: [^it]
                  /\ error_regex(rx.codes).bare
                  /\ stderr[i].ch \notin {"i", "t", ""}
               \/ /\ stderr[i].head = "error[E"          \* ^error\[E(..)\]: 
                  /\ stderr[i].code \in error_regex(rx.codes).alt

\* check_initial_ice: captures of (?m)^error\[E(?P<code>\d\d\d\d)\]: 
HarvestCodes(stderr) ==
    LET hit(l) == l.head = "error[E" /\ Len(l.code) = CodeWidth
        hits == SelectSeq(stderr, hit)
    IN  [i \in 1..Len(hits) |-> hits[i].code]

Range(s) == {s[i] : i \in DOMAIN s}

\* check() that leaves the uninteresting stderr pattern out of the CmdCheck
check_DropUninteresting(interesting_stderr, un_stderr) ==
    [stderr_regex |-> interesting_stderr, un_stderr_regex |-> NoRegex,
     timeout |-> TRUE]

\* check() that builds the CmdCheck without a timeout
check_NoTimeout(interesting_stderr, un_stderr) ==
    [stderr_regex |-> interesting_stderr, un_stderr_regex |-> un_stderr,
     timeout |-> FALSE]

\* fn check: the CmdCheck built from the two stderr patterns, Some(timeout)
check(interesting_stderr, un_stderr) ==
    [stderr_regex |-> interesting_stderr, un_stderr_regex |-> un_stderr,
     timeout |-> TRUE]

\* main: `initial_check` and `chk`
initial_check == check(InterestingRegex, ArgsUninteresting)
chk == check(InterestingRegex, uninteresting_stderr)

\* CmdCheck's classification of a finished run
Classify(cfg, stderr) ==
    IF is_match(cfg.un_stderr_regex, stderr) THEN FALSE
    ELSE cfg.stderr_regex.present => is_match(cfg.stderr_regex, stderr)

-----------------------------------------------------------------------------
(* State *)

Idle ==
    [status |-> "idle", phase |-> "none", hangs |-> FALSE, timed_out |-> FALSE,
     failed |-> FALSE, stderr |-> <<>>, interesting |-> FALSE]

NoResult == [tag |-> None, bytes |-> None]

NoMarkdown ==
    [written |-> FALSE, edited |-> None, code |-> None, formatted |-> None,
     reduced |-> FALSE, bisected |-> FALSE]

NoFiles ==
    [output |-> None, md |-> NoMarkdown,
     bisect_stdout |-> FALSE, bisect_stderr |-> FALSE]

NoTrace ==
    [stages |-> {}, initial_runs |-> 0, fmt_runs |-> 0,
     initial_verdict |-> None, reduce_outcome |-> None, fmt_verdict |-> None,
     bisect_outcome |-> None, bisect_file |-> None, abort |-> None]

Init ==
    /\ pc = "retrieve"
    /\ args \in [allow_errors : BOOLEAN, bisect : BOOLEAN, markdown : BOOLEAN,
                 uninteresting_stderr : BOOLEAN]
    /\ rs = None
    /\ oracle = Idle
    /\ initial_stderr = <<>>
    /\ error_codes = <<>>
    /\ uninteresting_stderr = NoRegex
    /\ reduced = None
    /\ rustfmt_out = None
    /\ fmt_result = NoResult
    /\ formatted = None
    /\ bisect_report = None
    /\ files = NoFiles
    /\ warnings = {}
    /\ exit_code = "running"
    /\ trace = NoTrace

Enter(stage) == [trace EXCEPT !.stages = @ \cup {stage}]

\* main returns Err (exit status 1), process::exit(1), or a panic (101)
Exit(code, stage) ==
    /\ pc' = "exit"
    /\ exit_code' = code
    /\ trace' = [trace EXCEPT !.abort = stage]

\* the CmdCheck an invocation runs under
CfgOf(phase) == IF phase = "initial" THEN initial_check ELSE chk

-----------------------------------------------------------------------------
(* The oracle: CmdCheck::start / wait_with_output on a spawned command *)

Pending(phase, hangs) == [Idle EXCEPT !.status = "pending", !.phase = phase,
                                      !.hangs = hangs]

\* the command exits and its output is classified; or collecting it fails
OracleExit ==
    /\ oracle.status = "pending"
    /\ ~oracle.hangs
    /\ \/ \E stderr \in Stderrs :
            oracle' = [oracle EXCEPT
                         !.status = "done",
                         !.stderr = stderr,
                         !.interesting = Classify(CfgOf(oracle.phase), stderr)]
       \/ oracle' = [oracle EXCEPT !.status = "done", !.failed = TRUE]
    /\ UNCHANGED <<pc, args, rs, initial_stderr, error_codes,
                   uninteresting_stderr, reduced, rustfmt_out,
                   fmt_result, formatted, bisect_report, files, warnings,
                   exit_code, trace>>

\* the timeout elapses first: the command is killed, the run is not interesting
OracleTimeout ==
    /\ oracle.status = "pending"
    /\ CfgOf(oracle.phase).timeout
    /\ oracle' = [oracle EXCEPT !.status = "done", !.timed_out = TRUE,
                                !.interesting = FALSE]
    /\ UNCHANGED <<pc, args, rs, initial_stderr, error_codes,
                   uninteresting_stderr, reduced, rustfmt_out,
                   fmt_result, formatted, bisect_report, files, warnings,
                   exit_code, trace>>

\* the caller has taken the result: the captured output is dropped
Collected == [oracle EXCEPT !.status = "collected", !.stderr = <<>>]

-----------------------------------------------------------------------------
(* main, steps 1 and 2 *)

\* let rs = retrieve(&args.source)?
Retrieve ==
    /\ pc = "retrieve"
    /\ \E ok \in BOOLEAN :
         IF ok
         THEN /\ rs' = "rs"
              /\ pc' = "configure"
              /\ trace' = Enter("retrieve")
              /\ UNCHANGED exit_code
         ELSE /\ Exit("1", "retrieve")
              /\ UNCHANGED rs
    /\ UNCHANGED <<args, oracle, initial_stderr, error_codes,
                   uninteresting_stderr, reduced, rustfmt_out,
                   fmt_result, formatted, bisect_report, files, warnings>>

\* let initial_check = check(...)?  (a user pattern may fail to compile)
Configure ==
    /\ pc = "configure"
    /\ \E valid \in BOOLEAN :
         IF valid \/ ~args.uninteresting_stderr
         THEN /\ pc' = "initial"
              /\ trace' = Enter("configure")
              /\ UNCHANGED exit_code
         ELSE Exit("1", "configure")
    /\ UNCHANGED <<args, rs, oracle, initial_stderr, error_codes,
                   uninteresting_stderr, reduced, rustfmt_out,
                   fmt_result, formatted, bisect_report, files, warnings>>

\* if args.allow_errors { args.uninteresting_stderr }
AllowErrors ==
    /\ pc = "initial"
    /\ args.allow_errors
    /\ uninteresting_stderr' = ArgsUninteresting
    /\ pc' = "reduce"
    /\ UNCHANGED <<args, rs, oracle, initial_stderr, error_codes, reduced, rustfmt_out, fmt_result, formatted, bisect_report,
                   files, warnings, exit_code, trace>>

\* check_initial_ice: chk.start(src)
CheckInitialStart ==
    /\ pc = "initial"
    /\ ~args.allow_errors
    /\ \E ok \in BOOLEAN :
         IF ok
         THEN /\ \E hangs \in BOOLEAN : oracle' = Pending("initial", hangs)
              /\ pc' = "initial_wait"
              /\ trace' = [Enter("initial") EXCEPT !.initial_runs = @ + 1]
              /\ UNCHANGED exit_code
         ELSE /\ Exit("1", "initial")
              /\ UNCHANGED oracle
    /\ UNCHANGED <<args, rs, initial_stderr, error_codes, uninteresting_stderr,
                   reduced, rustfmt_out, fmt_result, formatted,
                   bisect_report, files, warnings>>

\* check_initial_ice: wait_with_output, exit(1) unless interesting, harvest
check_initial_ice ==
    /\ pc = "initial_wait"
    /\ oracle.status = "done"
    /\ oracle' = Collected
    /\ IF oracle.failed
       THEN /\ Exit("1", "initial")
            /\ UNCHANGED <<initial_stderr, error_codes, warnings>>
       ELSE IF ~oracle.interesting
       THEN /\ pc' = "exit"
            /\ exit_code' = "1"
            /\ trace' = [trace EXCEPT !.abort = "initial",
                                      !.initial_verdict = "not interesting"]
            /\ warnings' = warnings \cup {"The file doesn't seem to produce an ICE."}
            /\ UNCHANGED <<initial_stderr, error_codes>>
       ELSE /\ error_codes' = HarvestCodes(oracle.stderr)
            /\ initial_stderr' = oracle.stderr
            /\ pc' = "synth"
            /\ trace' = [trace EXCEPT !.initial_verdict = "interesting"]
            /\ UNCHANGED <<exit_code, warnings>>
    /\ UNCHANGED <<args, rs, uninteresting_stderr, reduced,
                   rustfmt_out, fmt_result, formatted, bisect_report, files>>

\* main: fresh_error_regex, uninteresting_regex and the debug_assert!
\* (a panic in a build with debug assertions, nothing in one without);
\* error_codes is moved into the HashSet and initial_stderr goes out of scope
Synthesize ==
    /\ pc = "synth"
    /\ LET rx == uninteresting_regex(args.uninteresting_stderr,
                                     Range(error_codes))
           held == ~is_match(rx, initial_stderr)
       IN  \E debug_assertions \in BOOLEAN :
             IF debug_assertions /\ ~held
             THEN /\ Exit("101", "synth")
                  /\ UNCHANGED uninteresting_stderr
             ELSE /\ uninteresting_stderr' = rx
                  /\ pc' = "reduce"
                  /\ trace' = Enter("synth")
                  /\ UNCHANGED exit_code
    /\ initial_stderr' = <<>>
    /\ error_codes' = <<>>
    /\ UNCHANGED <<args, rs, oracle, reduced, rustfmt_out, fmt_result,
                   formatted, bisect_report, files, warnings>>

-----------------------------------------------------------------------------
(* main, step 3: reduce *)

ReduceOutcomes == {"ok", "parse_fail", "engine_err"}

Ok(v) == [kind |-> "Ok", value |-> v]
Err == [kind |-> "Err", value |-> None]
Panic == [kind |-> "panic", value |-> None]

\* reduce() that falls back to the unreduced source when the engine fails
reduce_SwallowErr(src, outcome, text) ==
    CASE outcome = "parse_fail" -> Panic
      [] outcome = "engine_err" -> Ok(src)
      [] OTHER                  -> Ok(text)

\* fn reduce: parse(..).unwrap(), treereduce_multi_pass(..)?, Ok(reduced.text)
reduce(src, outcome, text) ==
    CASE outcome = "parse_fail" -> Panic
      [] outcome = "engine_err" -> Err
      [] OTHER                  -> Ok(text)

\* let did_reduce = reduced != rs.as_bytes()
did_reduce == reduced # rs

\* main: let chk = check(..)?; let reduced = reduce(..).context(..)?
Reduce ==
    /\ pc = "reduce"
    /\ \E outcome \in ReduceOutcomes, text \in Bytes :
         LET r == reduce(rs, outcome, text)
             entered == [Enter("reduce") EXCEPT !.reduce_outcome = outcome]
         IN  CASE r.kind = "Ok" ->
                    /\ reduced' = r.value
                    /\ pc' = "fmt"
                    /\ trace' = entered
                    /\ UNCHANGED exit_code
               [] r.kind = "Err" ->
                    /\ pc' = "exit"
                    /\ exit_code' = "1"
                    /\ trace' = [entered EXCEPT !.abort = "reduce"]
                    /\ UNCHANGED reduced
               [] OTHER ->
                    /\ pc' = "exit"
                    /\ exit_code' = "101"
                    /\ trace' = [entered EXCEPT !.abort = "reduce"]
                    /\ UNCHANGED reduced
    /\ UNCHANGED <<args, rs, oracle, initial_stderr, error_codes,
                   uninteresting_stderr, rustfmt_out, fmt_result, formatted,
                   bisect_report, files, warnings>>

-----------------------------------------------------------------------------
(* main, step 4: format *)

CouldntFormat == [tag |-> "CouldntFormat", bytes |-> None]
NoChange == [tag |-> "NoChange", bytes |-> None]
NoIce == [tag |-> "NoIce", bytes |-> None]
Changed(b) == [tag |-> "Changed", bytes |-> b]

\* fmt() without the early return for unchanged bytes
fmt_unchanged_Never(file, bytes) == FALSE

\* fmt: if formatted == file { return Ok(FormatResult::NoChange) }
fmt_unchanged(file, bytes) == bytes = file

\* fmt: if check.interesting(&formatted)? { Changed(formatted) } else { NoIce }
fmt_checked(interesting, bytes) == IF interesting THEN Changed(bytes) ELSE NoIce

\* main's match that carries the formatter's bytes on whenever they differ
main_format_KeepFormatted(r, reduced_bytes) ==
    [fmt_result |-> IF r.kind = "Ok" THEN r.value ELSE CouldntFormat,
     formatted |-> IF r.kind = "Ok" /\ r.value.tag \in {"NoIce", "Changed"}
                   THEN rustfmt_out ELSE reduced_bytes,
     warn |-> r.kind # "Ok"]

\* main: match fmt(&chk, &reduced) { Err(_) => (CouldntFormat, reduced),
\*                                   Ok(r) => (r, reduced) }
main_format(r, reduced_bytes) ==
    [fmt_result |-> IF r.kind = "Ok" THEN r.value ELSE CouldntFormat,
     formatted |-> reduced_bytes,
     warn |-> r.kind # "Ok"]

\* main takes fmt's result and moves on to bisection
AfterFmt(r) ==
    LET m == main_format(r, reduced)
    IN  /\ fmt_result' = m.fmt_result
        /\ formatted' = m.formatted
        /\ warnings' = IF m.warn THEN warnings \cup {"Failed to format with rustfmt"}
                       ELSE warnings
        /\ pc' = "bisect"

\* fmt: write the temporary file, run rustfmt, read it back, compare;
\* start the check of the formatted bytes when they differ
FmtStart ==
    /\ pc = "fmt"
    /\ \E io_ok \in BOOLEAN, bytes \in Bytes, started \in BOOLEAN :
         IF ~io_ok
         THEN /\ AfterFmt(Err)
              /\ trace' = Enter("fmt")
              /\ UNCHANGED <<rustfmt_out, oracle>>
         ELSE /\ rustfmt_out' = bytes
              /\ IF fmt_unchanged(reduced, bytes)
                 THEN /\ AfterFmt(Ok(NoChange))
                      /\ trace' = Enter("fmt")
                      /\ UNCHANGED oracle
                 ELSE IF ~started
                 THEN /\ AfterFmt(Err)
                      /\ trace' = Enter("fmt")
                      /\ UNCHANGED oracle
                 ELSE /\ \E hangs \in BOOLEAN : oracle' = Pending("fmt", hangs)
                      /\ pc' = "fmt_wait"
                      /\ trace' = [Enter("fmt") EXCEPT !.fmt_runs = @ + 1]
                      /\ UNCHANGED <<fmt_result, formatted, warnings>>
    /\ UNCHANGED <<args, rs, initial_stderr, error_codes, uninteresting_stderr,
                   reduced, bisect_report, files, exit_code>>

\* fmt: the result of check.interesting(&formatted)? decides the FormatResult
FmtFinish ==
    /\ pc = "fmt_wait"
    /\ oracle.status = "done"
    /\ oracle' = Collected
    /\ IF oracle.failed
       THEN /\ AfterFmt(Err)
            /\ UNCHANGED trace
       ELSE /\ AfterFmt(Ok(fmt_checked(oracle.interesting, rustfmt_out)))
            /\ trace' = [trace EXCEPT !.fmt_verdict =
                            IF oracle.interesting THEN "interesting"
                            ELSE "not interesting"]
    /\ UNCHANGED <<args, rs, initial_stderr, error_codes, uninteresting_stderr,
                   reduced, rustfmt_out, bisect_report, files,
                   exit_code>>

-----------------------------------------------------------------------------
(* main, step 5: bisect *)

BisectOutcomes ==
    {"io_err",            \* a temporary file or the script cannot be written
     "script_spawn_err",  \* Command::new(&script_path).status().unwrap()
     "script_passed",     \* assert!(!status.success()) fails
     "spawn_err",         \* cargo-bisect-rustc cannot be run
     "nonzero",           \* cargo-bisect-rustc exits with a failure status
     "success"}

\* fn bisect: the process::Output of cargo-bisect-rustc, an Err, or a panic
bisect(outcome) ==
    CASE outcome \in {"io_err", "spawn_err"}              -> Err
      [] outcome \in {"script_spawn_err", "script_passed"} -> Panic
      [] OTHER                                             -> Ok(outcome)

\* main that gives up when cargo-bisect-rustc exits with a failure status
bisect_status_Fatal(status) == IF status = "success" THEN "continue" ELSE "abort"

\* main: if !out.status.success() { warn!("cargo-bisect-rustc failed") }
bisect_status(status) == IF status = "success" THEN "continue" ELSE "warn"

\* main: let bisect_report = if args.bisect { bisect(..)? .. } else { None }
MainBisect ==
    /\ pc = "bisect"
    /\ IF ~args.bisect
       THEN /\ warnings' = warnings \cup {"Skipping bisection! Try adding --bisect."}
            /\ pc' = "write"
            /\ trace' = Enter("skip_bisect")
            /\ UNCHANGED exit_code
       ELSE /\ \E outcome \in BisectOutcomes :
                 LET r == bisect(outcome)
                     entered == [Enter("bisect") EXCEPT !.bisect_outcome = outcome,
                                                        !.bisect_file = formatted]
                 IN  CASE r.kind = "Ok" ->
                            /\ pc' = "capture"
                            /\ trace' = entered
                            /\ UNCHANGED exit_code
                       [] r.kind = "Err" ->
                            /\ pc' = "exit"
                            /\ exit_code' = "1"
                            /\ trace' = [entered EXCEPT !.abort = "bisect"]
                       [] OTHER ->
                            /\ pc' = "exit"
                            /\ exit_code' = "101"
                            /\ trace' = [entered EXCEPT !.abort = "bisect"]
            /\ UNCHANGED warnings
    /\ UNCHANGED <<args, rs, oracle, initial_stderr, error_codes,
                   uninteresting_stderr, reduced, rustfmt_out,
                   fmt_result, formatted, bisect_report, files>>

\* main: write cargo-bisect-rustc.std{out,err}.txt, warn on failure, excerpt
Capture ==
    /\ pc = "capture"
    /\ \E wrote_stdout \in BOOLEAN, wrote_stderr \in BOOLEAN :
         IF ~wrote_stdout
         THEN /\ Exit("1", "capture")
              /\ UNCHANGED <<files, warnings, bisect_report>>
         ELSE IF ~wrote_stderr
         THEN /\ Exit("1", "capture")
              /\ files' = [files EXCEPT !.bisect_stdout = TRUE]
              /\ UNCHANGED <<warnings, bisect_report>>
         ELSE LET todo == bisect_status(trace.bisect_outcome)
              IN  /\ files' = [files EXCEPT !.bisect_stdout = TRUE,
                                            !.bisect_stderr = TRUE]
                  /\ IF todo = "abort"
                     THEN /\ Exit("1", "capture")
                          /\ UNCHANGED <<warnings, bisect_report>>
                     ELSE /\ warnings' = IF todo = "warn"
                                         THEN warnings \cup {"cargo-bisect-rustc failed"}
                                         ELSE warnings
                          /\ bisect_report' = "bisect report"
                          /\ pc' = "write"
                          /\ UNCHANGED <<exit_code, trace>>
    /\ UNCHANGED <<args, rs, oracle, initial_stderr, error_codes,
                   uninteresting_stderr, reduced, rustfmt_out,
                   fmt_result, formatted>>

-----------------------------------------------------------------------------
(* main: the output file and the Markdown report *)

\* let did_format = matches!(fmt_result, FormatResult::Changed(_))
did_format == fmt_result.tag = "Changed"

\* "Reduced, formatted" / "Reduced" / "Formatted"
Edited ==
    IF did_reduce /\ did_format THEN "Reduced, formatted"
    ELSE IF did_reduce THEN "Reduced"
    ELSE "Formatted"

\* main that writes the output file unconditionally
should_write_Always == TRUE

\* main: if did_reduce || did_format
should_write == did_reduce \/ did_format

\* main: if did_reduce || did_format { fs::write(&args.output, &formatted)? }
WriteOutput ==
    /\ pc = "write"
    /\ IF should_write
       THEN \E ok \in BOOLEAN :
              IF ok
              THEN /\ files' = [files EXCEPT !.output = formatted]
                   /\ pc' = "markdown"
                   /\ trace' = Enter("write")
                   /\ UNCHANGED exit_code
              ELSE /\ Exit("1", "write")
                   /\ UNCHANGED files
       ELSE /\ pc' = "markdown"
            /\ UNCHANGED <<files, exit_code, trace>>
    /\ UNCHANGED <<args, rs, oracle, initial_stderr, error_codes,
                   uninteresting_stderr, reduced, rustfmt_out,
                   fmt_result, formatted, bisect_report, warnings>>

\* fn markdown: the report written beside the output file
markdown(file) ==
    [written |-> TRUE,
     edited |-> IF did_reduce \/ did_format THEN Edited ELSE None,
     code |-> IF did_reduce \/ did_format THEN file ELSE None,
     formatted |-> fmt_result.tag,
     reduced |-> did_reduce,
     bisected |-> bisect_report # None]

\* main: if args.markdown { markdown(..)? }; Ok(())
Markdown ==
    /\ pc = "markdown"
    /\ IF args.markdown
       THEN \E utf8 \in BOOLEAN, ok \in BOOLEAN :
              IF utf8 /\ ok
              THEN /\ files' = [files EXCEPT !.md = markdown(formatted)]
                   /\ pc' = "exit"
                   /\ exit_code' = "0"
                   /\ trace' = Enter("markdown")
              ELSE /\ Exit("1", "markdown")
                   /\ UNCHANGED files
       ELSE /\ pc' = "exit"
            /\ exit_code' = "0"
            /\ UNCHANGED <<files, trace>>
    /\ UNCHANGED <<args, rs, oracle, initial_stderr, error_codes,
                   uninteresting_stderr, reduced, rustfmt_out,
                   fmt_result, formatted, bisect_report, warnings>>

-----------------------------------------------------------------------------

Next ==
    \/ Retrieve
    \/ Configure
    \/ AllowErrors
    \/ CheckInitialStart
    \/ OracleExit
    \/ OracleTimeout
    \/ check_initial_ice
    \/ Synthesize
    \/ Reduce
    \/ FmtStart
    \/ FmtFinish
    \/ MainBisect
    \/ Capture
    \/ WriteOutput
    \/ Markdown

Spec == Init /\ [][Next]_vars

\* Time passes: a pending wait_with_output returns once its timeout has elapsed.
LiveSpec == Spec /\ WF_vars(OracleTimeout)

-----------------------------------------------------------------------------
(* Properties *)

Done == oracle.status = "done"
Ran == Done /\ ~oracle.failed /\ ~oracle.timed_out

\* a finished run of the reduction-phase oracle `chk` with the differential
\* filter attached (allow_errors off)
FilteredRun == Ran /\ oracle.phase = "fmt" /\ ~args.allow_errors

\* the pattern main hands to check() for the invocation in flight
GivenUninteresting ==
    IF oracle.phase = "initial" THEN ArgsUninteresting ELSE uninteresting_stderr

\* the code set S the filter was synthesized from
S == uninteresting_stderr.codes

IsCodeLine(l) == l.head = "error[E" /\ Len(l.code) = CodeWidth

Vetoed == is_match(uninteresting_stderr, oracle.stderr) /\ ~oracle.interesting

\* C1 as claimed: with the filter synthesized from S attached, a candidate
\* whose stderr has a line starting `error[Ec]: ` for any 4-digit code c not
\* in S is matched by the uninteresting pattern and is not interesting.
C1_AnyFreshCodeVetoed ==
    FilteredRun =>
      \A i \in DOMAIN oracle.stderr :
        IsCodeLine(oracle.stderr[i]) /\ oracle.stderr[i].code \notin S => Vetoed

\* C1 (amended): the same for every code c in 0000..0999 not in S, the codes
\* error_regex enumerates; codes from 1000 up are not matched by the filter.
C1_FreshCodeBelowLimitVetoed ==
    FilteredRun =>
      \A i \in DOMAIN oracle.stderr :
        /\ IsCodeLine(oracle.stderr[i])
        /\ oracle.stderr[i].code \notin S
        /\ CodeValue(oracle.stderr[i].code) < CodeLimit
        => Vetoed

C1_Witness ==
    /\ FilteredRun
    /\ S # {}
    /\ Len(oracle.stderr) >= 2
    /\ oracle.stderr[1].ice
    /\ IsCodeLine(oracle.stderr[2])
    /\ oracle.stderr[2].code \notin S
    /\ CodeValue(oracle.stderr[2].code) = CodeLimit - 1
    /\ Vetoed

\* C2: whenever the uninteresting stderr pattern handed to check() matches a
\* finished run's stderr, the run is not interesting, also when the
\* interesting pattern matches too.
C2_UninterestingOverrides ==
    Done /\ ~oracle.failed /\ is_match(GivenUninteresting, oracle.stderr)
      => ~oracle.interesting

C2_Witness ==
    /\ Ran
    /\ oracle.phase = "initial"
    /\ is_match(GivenUninteresting, oracle.stderr)
    /\ is_match(InterestingRegex, oracle.stderr)
    /\ ~oracle.interesting

LaterStages == {"reduce", "fmt", "bisect", "skip_bisect", "write", "markdown"}

\* C3 as claimed: for every combination of flags the reduction stage is
\* entered only after an initial run classified interesting; a not
\* interesting initial run ends the pipeline with exit status 1, after one
\* run, before the reducer and with nothing written.
C3_ReduceOnlyAfterInterestingInitialRun ==
    /\ "reduce" \in trace.stages => trace.initial_verdict = "interesting"
    /\ trace.initial_verdict = "not interesting" =>
         /\ pc = "exit" /\ exit_code = "1"
         /\ trace.initial_runs = 1
         /\ trace.stages \cap LaterStages = {}
         /\ files = NoFiles

\* C4 as claimed: the synthesized filter never vetoes the original failure:
\* the final uninteresting pattern does not match the initial run's own
\* stderr (main's debug assertion), and a reduction-phase stderr that matches
\* the interesting pattern and carries only codes of S is interesting.
C4_FilterNeverVetoesOriginal ==
    /\ pc = "synth" =>
         ~is_match(uninteresting_regex(args.uninteresting_stderr,
                                       Range(error_codes)),
                   initial_stderr)
    /\ ( /\ FilteredRun
         /\ is_match(InterestingRegex, oracle.stderr)
         /\ \A i \in DOMAIN oracle.stderr :
              IsCodeLine(oracle.stderr[i]) => oracle.stderr[i].code \in S )
       => ~is_match(uninteresting_stderr, oracle.stderr) /\ oracle.interesting

Finished == pc = "exit" /\ trace.abort = None
Validated == trace.initial_verdict = "interesting"

\* C5 as claimed: once the initial validation has succeeded, a run that meets
\* no fatal error ends with exit status 0 and the final candidate written to
\* the output path, whatever the formatting outcome and whether or not the
\* reducer shrank the source.
C5_OutputAlwaysWritten ==
    Finished /\ Validated => exit_code = "0" /\ files.output = formatted

\* C5 (amended): such a run ends with exit status 0; the final candidate is
\* written to the output path when the reducer changed the source or the
\* formatting outcome is Changed, and no output file is written otherwise.
C5_OutputWrittenWhenEdited ==
    Finished /\ Validated =>
      /\ exit_code = "0"
      /\ files.output =
           IF reduced # rs \/ fmt_result.tag = "Changed" THEN formatted ELSE None

C5_Witness ==
    /\ Finished /\ Validated /\ exit_code = "0"
    /\ fmt_result = CouldntFormat
    /\ reduced # rs
    /\ files.output = reduced

BisectFailures == {"spawn_err", "nonzero", "script_passed"}

ProducedAll ==
    /\ exit_code = "0"
    /\ files.output =
         IF reduced # rs \/ fmt_result.tag = "Changed" THEN formatted ELSE None
    /\ args.markdown => files.md.written

\* C6 as claimed: no failure of the bisection stage (tool not spawned, tool
\* exiting non-zero, predicate script not failing on the known-bad toolchain)
\* ends the pipeline: the output file and the requested report are produced
\* and the pipeline exits successfully.
C6_BisectFailuresRecovered ==
    trace.bisect_outcome \in BisectFailures =>
      /\ trace.abort # "bisect"
      /\ Finished => ProducedAll

\* C6 (amended): a non-zero exit of the bisection tool is logged as a warning
\* and does not end the pipeline: unless writing a capture file, the output
\* file or the report fails, the output file (when reducer or formatter
\* changed the source) and the requested report are produced and the exit
\* status is 0.  The tool failing to spawn and the predicate script not
\* failing on the known-bad toolchain end the pipeline with a non-zero exit
\* status before the output file and the report are written.
C6_OnlyNonzeroExitRecovered ==
    /\ trace.bisect_outcome = "nonzero" =>
         /\ trace.abort # "bisect"
         /\ trace.abort = "capture" => ~files.bisect_stderr
         /\ pc \in {"write", "markdown"} \/ Finished =>
              /\ "cargo-bisect-rustc failed" \in warnings
              /\ bisect_report # None
         /\ Finished => ProducedAll
    /\ trace.bisect_outcome \in {"spawn_err", "script_passed"} =>
         /\ pc = "exit" /\ exit_code # "0" /\ trace.abort = "bisect"
         /\ files = NoFiles

C6_Witness ==
    /\ trace.bisect_outcome = "nonzero"
    /\ Finished /\ exit_code = "0"
    /\ args.markdown /\ files.md.written
    /\ files.output = formatted
    /\ "cargo-bisect-rustc failed" \in warnings

\* C7: when the formatter changed the bytes and the oracle finds the formatted
\* bytes not interesting, the outcome is NoIce and the candidate handed to
\* bisection, written to the output file and put in the report is the
\* reduced bytes, not the formatter's.
C7_BrokenFormattingDiscarded ==
    trace.fmt_verdict = "not interesting" =>
      /\ rustfmt_out # reduced
      /\ fmt_result = NoIce
      /\ formatted = reduced
      /\ trace.bisect_file \in {None, reduced}
      /\ files.output \in {None, reduced}
      /\ files.md.code \in {None, reduced}

C7_Witness ==
    /\ trace.fmt_verdict = "not interesting"
    /\ Finished
    /\ trace.bisect_file = reduced
    /\ files.output = reduced
    /\ files.md.code = reduced

\* C8: when parsing the source fails or the reduction engine returns an
\* error, the pipeline ends there with a non-zero exit status: the formatter
\* and bisection have not run and no file has been written.
C8_ReduceFailureAborts ==
    trace.reduce_outcome \in {"parse_fail", "engine_err"} =>
      /\ pc = "exit" /\ exit_code \in {"1", "101"} /\ trace.abort = "reduce"
      /\ trace.stages \cap (LaterStages \ {"reduce"}) = {}
      /\ trace.fmt_runs = 0
      /\ fmt_result = NoResult /\ bisect_report = None
      /\ files = NoFiles

C8_Witness ==
    /\ trace.reduce_outcome = "engine_err"
    /\ pc = "exit" /\ exit_code = "1"
    /\ Validated

HungPending == oracle.status = "pending" /\ oracle.hangs
TimedOut == Done /\ oracle.timed_out

\* C9: an invocation whose command never terminates is ended by the timeout
\* and classified not interesting: it is never left pending, never classified
\* interesting, and the same invocation is not started again.
C9_HungCommandTimesOut ==
    /\ [](HungPending => <>(TimedOut /\ ~oracle.interesting))
    /\ [](oracle.hangs /\ oracle.status # "pending" => ~oracle.interesting)
    /\ [][TimedOut => oracle'.status # "pending"]_vars

C9_Witness == TimedOut /\ oracle.hangs /\ oracle.phase = "fmt"

\* C10: when the formatter leaves the bytes identical the outcome is NoChange,
\* the oracle is not invoked and the reduced bytes stay the final candidate;
\* so formatting the bytes of a Changed result again, with a formatter that
\* leaves its own output alone, is reported as unchanged.
C10_IdenticalBytesNoChange ==
    /\ rustfmt_out = reduced /\ rustfmt_out # None =>
         /\ fmt_result = NoChange
         /\ trace.fmt_runs = 0
         /\ oracle.phase # "fmt"
         /\ formatted = reduced
    /\ fmt_result.tag = "Changed" =>
         fmt_unchanged(fmt_result.bytes, fmt_result.bytes)

C10_Witness ==
    /\ rustfmt_out = reduced /\ reduced # rs
    /\ fmt_result = NoChange
    /\ Finished
    /\ files.output = reduced

\* C11 as claimed: when the formatting outcome is Changed, the candidate
\* handed to bisection, written to the output path and put in the report
\* (labelled "Formatted" or "Reduced, formatted") is the formatter's bytes
\* carried by that outcome; in every other outcome it is the reduced bytes.
C11_ChangedBytesAreFinal ==
    LET final == IF fmt_result.tag = "Changed" THEN fmt_result.bytes ELSE reduced
    IN  fmt_result # NoResult =>
          /\ formatted = final
          /\ trace.bisect_file \in {None, final}
          /\ files.output \in {None, final}
          /\ files.md.code \in {None, final}
          /\ files.md.written /\ fmt_result.tag = "Changed" =>
               files.md.edited \in {"Formatted", "Reduced, formatted"}

====
